---- MODULE Spec2Model ----
(***************************************************************************)
(* Job lifecycle of the PDF compressor: the ProcessingJob state            *)
(* operations (models/processing_job.py), the dispatcher                   *)
(* PDFProcessor.process_pdf (services/pdf_processor.py), the inline        *)
(* upload flow upload_file (api/processing.py) and the sweeper             *)
(* FileManager.cleanup_expired_files (services/file_manager.py).           *)
(*                                                                         *)
(* Time is in seconds.  A job record is a row of the job table; every      *)
(* db.session.commit() of the code is the end of one atomic step.          *)
(***************************************************************************)
EXTENDS Integers, Sequences, FiniteSets, TLC

(***************************************************************************)
(* Bounds of the model.                                                    *)
(***************************************************************************)
MaxAdvances == 3
MaxRetryCount == 4
MaxRequests == 3
MaxRetried == 4

(***************************************************************************)
(* Program constants.                                                      *)
(***************************************************************************)
RetentionSeconds == 86400
ProcessingTimeout == 300
StallSeconds == 600
MaxRetries == 3

\* Jobs are independent rows: no operation on one job reads another row.
Ids == {1}
Steps == {1, RetentionSeconds}
FileSizes == {1024}
OutputSizes == {0, 512}

NullInt == -1
NullStr == "NULL"
NullPath == <<>>
NoJob == [status |-> "absent"]
NoResult == [success |-> FALSE, error |-> NullStr, processed_size |-> NullInt,
             compression_ratio |-> NullPath, relative_path |-> NullPath, set |-> FALSE]

Statuses == {"pending", "processing", "completed", "failed", "expired"}

MsgGhostscript == "Ghostscript processing failed"
MsgPreset == "Invalid quality preset"
MsgInputMissing == "No such file or directory"
MsgStalled == "Processing timed out - job was stuck in pending state"
MsgCaller == "Processing failed due to invalid PDF"
MsgOther == "Out of memory"
CallerMsgs == {MsgCaller, MsgOther}

UploadPath(j) == <<"uploads", j>>
ProcessedPath(j) == <<"processed", j>>

VARIABLES
    now,        \* datetime.utcnow(), in seconds
    advances,   \* number of clock steps taken
    jobs,       \* the job table: id -> row, NoJob when no row has that id
    files,      \* the storage folder: path -> size, NullInt when absent
    task,       \* position of the request or thread working on each job
    quota,      \* the usage counters of one user (models/user.py)
    req,        \* the uploads of that user that are between check and commit
    retried,    \* per job, the failed -> pending transitions counted so far
    current_user \* the user logged in (flask_login), NullInt when nobody is

qvars == <<quota, req, retried, current_user>>

vars == <<now, advances, jobs, files, task, quota, req, retried, current_user>>

Paths == {UploadPath(j) : j \in Ids} \cup {ProcessedPath(j) : j \in Ids}

Exists(j) == jobs[j] # NoJob

(***************************************************************************)
(* ProcessingJob: the state operations.                                    *)
(***************************************************************************)
NewJob_expires_at_creation(size, path, t) ==
    [status |-> "pending", original_size |-> size, processed_size |-> NullInt,
     compression_ratio |-> NullPath, created_at |-> t, started_at |-> NullInt,
     completed_at |-> NullInt, expires_at |-> t,
     error_message |-> NullStr, retry_count |-> 0,
     upload_path |-> path, processed_path |-> NullPath,
     user_id |-> NullInt, session_id |-> NullInt]

NewJob(size, path, t) ==
    [status |-> "pending", original_size |-> size, processed_size |-> NullInt,
     compression_ratio |-> NullPath, created_at |-> t, started_at |-> NullInt,
     completed_at |-> NullInt, expires_at |-> t + RetentionSeconds,
     error_message |-> NullStr, retry_count |-> 0,
     upload_path |-> path, processed_path |-> NullPath,
     user_id |-> NullInt, session_id |-> NullInt]

is_expired(job, t) == t > job.expires_at

start_processing(job, t) ==
    [job EXCEPT !.status = "processing", !.started_at = t]

Ratio(processed, original) == <<processed, original>>

complete_processing_ratio_inverted(job, size, path, t) ==
    [job EXCEPT !.status = "completed", !.completed_at = t,
                !.processed_size = size, !.processed_path = path,
                !.compression_ratio =
                    IF job.original_size > 0 THEN Ratio(job.original_size, size) ELSE @]

complete_processing(job, size, path, t) ==
    [job EXCEPT !.status = "completed", !.completed_at = t,
                !.processed_size = size, !.processed_path = path,
                !.compression_ratio =
                    IF job.original_size > 0 THEN Ratio(size, job.original_size) ELSE @]

fail_processing_keeps_count(job, msg, t) ==
    [job EXCEPT !.status = "failed", !.error_message = msg, !.completed_at = t]

fail_processing(job, msg, t) ==
    [job EXCEPT !.status = "failed", !.error_message = msg,
                !.completed_at = t, !.retry_count = @ + 1]

\* the value expire_job returns, lines 97-101
expire_job_reports(job, t) == is_expired(job, t)

expire_job_unguarded(job, t) ==
    [job EXCEPT !.status = "expired"]

expire_job(job, t) ==
    IF ~ is_expired(job, t) THEN job ELSE [job EXCEPT !.status = "expired"]

can_retry(job, t) ==
    job.status = "failed" /\ job.retry_count < MaxRetries /\ ~ is_expired(job, t)

reset_for_retry_resets_count(job, t) ==
    IF ~ can_retry(job, t) THEN job
    ELSE [job EXCEPT !.status = "pending", !.started_at = NullInt,
                     !.completed_at = NullInt, !.error_message = NullStr,
                     !.retry_count = 0]

reset_for_retry(job, t) ==
    IF ~ can_retry(job, t) THEN job
    ELSE [job EXCEPT !.status = "pending", !.started_at = NullInt,
                     !.completed_at = NullInt, !.error_message = NullStr]


(***************************************************************************)
(* The job table and the position of the worker of each job.               *)
(*   pc = "idle"      no request or thread is working on the job           *)
(*        "created"   upload_file has stored the job        (line 97)      *)
(*        "upstarted" upload_file has marked it processing  (line 127)     *)
(*        "started"   process_pdf has called start          (line 36)      *)
(*        "ran"       the transform has returned            (line 58)      *)
(*        "returned"  process_pdf has returned to upload_file (line 143)   *)
(***************************************************************************)
\* the dictionaries process_pdf returns (lines 84-90, 104-107, 128-131)
\* get_progress_info, lines 118-137.  elapsed is in whole seconds and never
\* negative; int((elapsed / 150) * 100) is the integer quotient except at 87
\* seconds, where the floating-point product is 57.99999999999999.
EstimatedTotal == 150

get_progress_info(job, t) ==
    IF job.status = "completed" THEN 100
    ELSE IF job.status = "processing"
    THEN IF job.started_at # NullInt
         THEN LET elapsed == t - job.started_at
                  percent == IF elapsed = 87 THEN 57
                             ELSE (elapsed * 100) \div EstimatedTotal
              IN  IF percent < 95 THEN percent ELSE 95
         ELSE 5
    ELSE 0

Success(size, ratio, path) ==
    [success |-> TRUE, error |-> NullStr, processed_size |-> size,
     compression_ratio |-> ratio, relative_path |-> path, set |-> TRUE]

Failure(msg) ==
    [success |-> FALSE, error |-> msg, processed_size |-> NullInt,
     compression_ratio |-> NullPath, relative_path |-> NullPath, set |-> TRUE]

IdleTask == [pc |-> "idle", inline |-> FALSE, preset_ok |-> TRUE,
             exit |-> "none", result |-> NoResult]

(***************************************************************************)
(* The usage counters of a user (models/user.py) and the limits of the     *)
(* RateLimiter (utils/security.py).                                        *)
(***************************************************************************)
MB == 1048576
MaxContentLength == 26214400
DailyFileLimit == 50
DailyStorageLimitMB == 200
SessionStorageLimitMB == 100
RateLimitsEnabled == TRUE
SecondsPerDay == 86400

\* date.today()
Today(t) == t \div SecondsPerDay

\* the columns of a new user, lines 20-24
NewQuota ==
    [daily_file_count |-> 0, daily_storage_used |-> 0,
     session_storage_used |-> 0, last_reset_date |-> 0]

MsgAllowed == "Upload allowed"
MsgDailyFiles == "Daily file limit of 50 files exceeded"
MsgDailyStorage == "Daily storage limit of 200MB exceeded"
MsgSessionStorage == "Session storage limit of 100MB exceeded"

\* reset_daily_counters_if_needed, lines 44-51
reset_daily_counters_if_needed_clears_session(q, today) ==
    IF q.last_reset_date < today
    THEN [q EXCEPT !.daily_file_count = 0, !.daily_storage_used = 0,
                   !.session_storage_used = 0, !.last_reset_date = today]
    ELSE q

reset_daily_counters_if_needed_every_check(q, today) ==
    IF q.last_reset_date <= today
    THEN [q EXCEPT !.daily_file_count = 0, !.daily_storage_used = 0,
                   !.last_reset_date = today]
    ELSE q

reset_daily_counters_if_needed(q, today) ==
    IF q.last_reset_date < today
    THEN [q EXCEPT !.daily_file_count = 0, !.daily_storage_used = 0,
                   !.last_reset_date = today]
    ELSE q

\* can_upload_file, lines 57-71, on the counters left by the reset of line 55
can_upload_file_storage_inclusive(q, file_size) ==
    IF q.daily_file_count >= DailyFileLimit THEN MsgDailyFiles
    ELSE IF q.daily_storage_used + file_size >= DailyStorageLimitMB * MB
         THEN MsgDailyStorage
    ELSE IF q.session_storage_used + file_size > SessionStorageLimitMB * MB
         THEN MsgSessionStorage
    ELSE MsgAllowed

can_upload_file(q, file_size) ==
    IF q.daily_file_count >= DailyFileLimit THEN MsgDailyFiles
    ELSE IF q.daily_storage_used + file_size > DailyStorageLimitMB * MB
         THEN MsgDailyStorage
    ELSE IF q.session_storage_used + file_size > SessionStorageLimitMB * MB
         THEN MsgSessionStorage
    ELSE MsgAllowed

\* update_usage_counters, lines 73-77
update_usage_counters_twice(q, file_size) ==
    [q EXCEPT !.daily_file_count = @ + 1,
              !.daily_storage_used = @ + file_size + file_size,
              !.session_storage_used = @ + file_size]

update_usage_counters_skips_session(q, file_size) ==
    [q EXCEPT !.daily_file_count = @ + 1,
              !.daily_storage_used = @ + file_size]

update_usage_counters(q, file_size) ==
    [q EXCEPT !.daily_file_count = @ + 1,
              !.daily_storage_used = @ + file_size,
              !.session_storage_used = @ + file_size]

\* clear_session_storage, lines 79-81
clear_session_storage(q) == [q EXCEPT !.session_storage_used = 0]

Reqs == 1 .. MaxRequests
IdleReq == [pc |-> "idle", size |-> 0, message |-> NullStr]

Init ==
    /\ now = 0
    /\ advances = 0
    /\ jobs = [j \in Ids |-> NoJob]
    /\ files = [p \in Paths |-> NullInt]
    /\ task = [j \in Ids |-> IdleTask]
    /\ quota = NewQuota
    /\ req = [r \in Reqs |-> IdleReq]
    /\ retried = [j \in Ids |-> 0]
    /\ current_user = NullInt

\* The clock: datetime.utcnow() moves on between any two steps.  A request or
\* a dispatcher thread that is under way is bounded by the transform timeout
\* (PROCESSING_TIMEOUT, 300 s), so only a short step passes while one runs.
Busy == \E j \in Ids : task[j].pc # "idle"

Advance(d) ==
    /\ advances < MaxAdvances
    /\ d > ProcessingTimeout => ~ Busy
    /\ now' = now + d
    /\ advances' = advances + 1
    /\ UNCHANGED <<jobs, files, task>>
    /\ UNCHANGED qvars

(***************************************************************************)
(* upload_file, the inline flow (api/processing.py).  The route passes a   *)
(* session id to the job model and the file manager; the versions of those *)
(* under models/ and services/ take a user id only, so the route is        *)
(* modelled as written, with the helpers doing for the session what they   *)
(* do for a user.                                                          *)
(***************************************************************************)
\* lines 72-97: save the upload, create the job row in status pending.
\* lines 40-45 and 85-97: the job is stored with the session_id of the
\* browser session that uploads; the sessions are interchangeable, and the
\* uploading one is session 1.
UploadSession == 1

\* the session_id column that upload_file, get_job_status and
\* download_processed_file read and write
SessionJob(job, sid) == [job EXCEPT !.session_id = sid]

UploadCreate(j, size) ==
    /\ ~ Exists(j)
    /\ \A i \in Ids : i < j => Exists(i)
    /\ files' = [files EXCEPT ![UploadPath(j)] = size]
    /\ jobs' = [jobs EXCEPT ![j] = SessionJob(NewJob(size, UploadPath(j), now),
                                              UploadSession)]
    /\ task' = [task EXCEPT ![j] = [IdleTask EXCEPT !.pc = "created", !.inline = TRUE]]
    /\ UNCHANGED <<now, advances>>
    /\ UNCHANGED qvars

\* lines 125-127: job.status = 'processing'; job.start_processing(); commit.
UploadStart(j) ==
    /\ task[j].pc = "created"
    /\ Exists(j)
    /\ jobs' = [jobs EXCEPT ![j] =
                   start_processing([jobs[j] EXCEPT !.status = "processing"], now)]
    /\ task' = [task EXCEPT ![j].pc = "upstarted"]
    /\ UNCHANGED <<now, advances, files>>
    /\ UNCHANGED qvars

\* lines 145-176: copy the result of process_pdf into the row and commit.
UploadResult(job, result, t) ==
    IF result.success
    THEN [job EXCEPT !.status = "completed", !.completed_at = t,
                     !.processed_size = result.processed_size,
                     !.compression_ratio = result.compression_ratio,
                     !.processed_path = result.relative_path]
    ELSE [job EXCEPT !.status = "failed", !.error_message = result.error,
                     !.completed_at = t]

\* lines 178-183: an exception before process_pdf is called (the output
\* directory cannot be created) marks the job failed.
MsgUpload == "Permission denied"

UploadError(j) ==
    /\ task[j].pc = "upstarted"
    /\ Exists(j)
    /\ jobs' = [jobs EXCEPT ![j] = UploadResult(jobs[j], Failure(MsgUpload), now)]
    /\ task' = [task EXCEPT ![j] = IdleTask]
    /\ UNCHANGED <<now, advances, files>>
    /\ UNCHANGED qvars

UploadFinish(j) ==
    /\ task[j].pc = "returned"
    /\ Exists(j)
    /\ jobs' = [jobs EXCEPT ![j] = UploadResult(jobs[j], task[j].result, now)]
    /\ task' = [task EXCEPT ![j] = IdleTask]
    /\ UNCHANGED <<now, advances, files>>
    /\ UNCHANGED qvars

(***************************************************************************)
(* PDFProcessor.process_pdf (services/pdf_processor.py), called inline by  *)
(* upload_file or in a background thread by process_pdf_async.             *)
(***************************************************************************)
\* where the worker goes when process_pdf returns
Return(tk, result) ==
    IF tk.inline THEN [tk EXCEPT !.pc = "returned", !.result = result]
    ELSE IdleTask

\* lines 29-36: load the job, start it, commit.
PdfStart(j, preset_ok) ==
    /\ task[j].pc \in {"idle", "upstarted"}
    /\ Exists(j)
    /\ task[j].pc = "upstarted" => preset_ok
    /\ jobs' = [jobs EXCEPT ![j] = start_processing(jobs[j], now)]
    /\ task' = [task EXCEPT ![j].pc = "started", ![j].preset_ok = preset_ok]
    /\ UNCHANGED <<now, advances, files>>
    /\ UNCHANGED qvars

ExitKinds == {"exit0", "nonzero", "timeout", "exception"}

\* _execute_ghostscript, lines 172-208: only exit code 0 reports success.
execute_ghostscript(exit) == exit = "exit0"

\* lines 46-58: an unknown preset raises and the handler (109-131) fails the
\* job; otherwise the transform runs and may leave an output file.
PdfRun(j, exit, out) ==
    /\ task[j].pc = "started"
    /\ Exists(j)
    /\ IF ~ task[j].preset_ok
       THEN /\ exit = "exception" /\ out = NullInt
            /\ jobs[j].retry_count < MaxRetryCount
            /\ jobs' = [jobs EXCEPT ![j] = fail_processing(jobs[j], MsgPreset, now)]
            /\ task' = [task EXCEPT ![j] = Return(task[j], Failure(MsgPreset))]
            /\ UNCHANGED files
       ELSE /\ exit \in {"exception"} => out = NullInt
            /\ files' = IF out = NullInt THEN files
                        ELSE [files EXCEPT ![ProcessedPath(j)] = out]
            /\ task' = [task EXCEPT ![j].pc = "ran", ![j].exit = exit]
            /\ UNCHANGED jobs
    /\ UNCHANGED <<now, advances>>
    /\ UNCHANGED qvars

\* line 61: the test that chooses between complete and fail
OutputAccepted(success, outsize) == success /\ outsize # NullInt

\* line 75
ResultRatio(processed, original) ==
    IF original > 0 THEN Ratio(processed, original) ELSE Ratio(0, 1)

\* lines 92-94: one message for every transform failure, whatever the cause
\* (nonzero exit, timeout, missing output file).
error_msg(exit, outsize) == MsgGhostscript

\* lines 61-107 and the handler 109-131.
PdfFinish(j) ==
    /\ task[j].pc = "ran"
    /\ Exists(j)
    /\ LET out == files[ProcessedPath(j)]
           inp == files[UploadPath(j)]
       IN  IF OutputAccepted(execute_ghostscript(task[j].exit), out)
           THEN IF inp = NullInt
                THEN \* os.path.getsize(input_path) raises
                     /\ jobs[j].retry_count < MaxRetryCount
                     /\ jobs' = [jobs EXCEPT ![j] =
                                    fail_processing(jobs[j], MsgInputMissing, now)]
                     /\ task' = [task EXCEPT ![j] =
                                    Return(task[j], Failure(MsgInputMissing))]
                ELSE /\ jobs' = [jobs EXCEPT ![j] =
                                    complete_processing(jobs[j], out, ProcessedPath(j), now)]
                     /\ task' = [task EXCEPT ![j] =
                                    Return(task[j], Success(out, ResultRatio(out, inp),
                                                            ProcessedPath(j)))]
           ELSE /\ jobs[j].retry_count < MaxRetryCount
                /\ jobs' = [jobs EXCEPT ![j] =
                               fail_processing(jobs[j], error_msg(task[j].exit, out), now)]
                /\ task' = [task EXCEPT ![j] =
                               Return(task[j], Failure(error_msg(task[j].exit, out)))]
    /\ UNCHANGED <<now, advances, files>>
    /\ UNCHANGED qvars

\* lines 72 and 95 with the handler 109-131: db.session.commit() raises (the
\* store is locked or gone), so the terminal write is rolled back.  The
\* handler then loads the job again and fails it with str(e); when that
\* access raises too, lines 129-130 only log it and the row stays as it was.
MsgStore == "database is locked"

PdfCommitFails(j, recovered) ==
    /\ task[j].pc = "ran"
    /\ Exists(j)
    /\ IF recovered
       THEN /\ jobs[j].retry_count < MaxRetryCount
            /\ jobs' = [jobs EXCEPT ![j] = fail_processing(jobs[j], MsgStore, now)]
       ELSE UNCHANGED jobs
    /\ task' = [task EXCEPT ![j] = Return(task[j], Failure(MsgStore))]
    /\ UNCHANGED <<now, advances, files>>
    /\ UNCHANGED qvars

(***************************************************************************)
(* The state operations applied by a caller of the model, as the tests do. *)
(***************************************************************************)
Start(j) ==
    /\ Exists(j)
    /\ jobs' = [jobs EXCEPT ![j] = start_processing(jobs[j], now)]
    /\ UNCHANGED <<now, advances, files, task>>
    /\ UNCHANGED qvars

Complete(j, size) ==
    /\ Exists(j)
    /\ jobs' = [jobs EXCEPT ![j] = complete_processing(jobs[j], size, ProcessedPath(j), now)]
    /\ UNCHANGED <<now, advances, files, task>>
    /\ UNCHANGED qvars

Fail(j, msg) ==
    /\ Exists(j)
    /\ jobs[j].retry_count < MaxRetryCount
    /\ jobs' = [jobs EXCEPT ![j] = fail_processing(jobs[j], msg, now)]
    /\ UNCHANGED <<now, advances, files, task>>
    /\ UNCHANGED qvars

Expire(j) ==
    /\ Exists(j)
    /\ jobs' = [jobs EXCEPT ![j] = expire_job(jobs[j], now)]
    /\ UNCHANGED <<now, advances, files, task>>
    /\ UNCHANGED qvars

Retry(j) ==
    /\ Exists(j)
    /\ jobs' = [jobs EXCEPT ![j] = reset_for_retry(jobs[j], now)]
    /\ UNCHANGED <<now, advances, files, task>>
    /\ UNCHANGED qvars

(***************************************************************************)
(* The sweeper.                                                            *)
(***************************************************************************)
\* cleanup_stalled_jobs, lines 183-203
Stalled_inclusive(job, t) ==
    job # NoJob /\ job.status = "pending" /\ job.created_at <= t - StallSeconds

Stalled(job, t) ==
    job # NoJob /\ job.status = "pending" /\ job.created_at < t - StallSeconds

StalledJob_status_stalled(job, t) ==
    [job EXCEPT !.status = "stalled", !.error_message = MsgStalled, !.completed_at = t]

StalledJob(job, t) ==
    [job EXCEPT !.status = "failed", !.error_message = MsgStalled, !.completed_at = t]

cleanup_stalled_jobs ==
    /\ jobs' = [j \in DOMAIN jobs |-> IF Stalled(jobs[j], now)
                              THEN StalledJob(jobs[j], now) ELSE jobs[j]]
    /\ UNCHANGED <<now, advances, files, task>>
    /\ UNCHANGED qvars

\* cleanup_expired_files, lines 289-327, with delete_job_files, lines 131-158
SweepSelected(job, t) == job # NoJob /\ job.expires_at < t

\* delete_job_files, lines 131-158: the files the sweep tries to delete
JobPaths_upload_only(job) ==
    {job.upload_path}

JobPaths(job) ==
    {job.upload_path} \cup
    (IF job.processed_path # NullPath THEN {job.processed_path} ELSE {})

\* secure_delete_file (utils/security.py, lines 89-105) swallows OSError and
\* PermissionError and returns False: the file stays.  undeleted is the set
\* of paths whose delete fails in this pass.  When the commit of line 310
\* raises, lines 325-327 log it and the rows keep their status, the files
\* already deleted stay deleted.
cleanup_expired_files_mark_first(undeleted, committed) ==
    LET swept == {j \in Ids : SweepSelected(jobs[j], now)}
        gone == UNION {JobPaths(jobs[j]) : j \in swept} \ undeleted
    IN  /\ \A p \in undeleted : files[p] # NullInt
        /\ undeleted \subseteq UNION {JobPaths(jobs[j]) : j \in swept}
        /\ jobs' = [j \in Ids |-> IF j \in swept
                                  THEN expire_job(jobs[j], now)
                                  ELSE jobs[j]]
        /\ files' = [p \in Paths |-> IF p \in gone /\ committed
                                     THEN NullInt ELSE files[p]]
        /\ UNCHANGED <<now, advances, task>>
        /\ UNCHANGED qvars

cleanup_expired_files(undeleted, committed) ==
    LET swept == {j \in Ids : SweepSelected(jobs[j], now)}
        gone == UNION {JobPaths(jobs[j]) : j \in swept} \ undeleted
    IN  /\ \A p \in undeleted : files[p] # NullInt
        /\ undeleted \subseteq UNION {JobPaths(jobs[j]) : j \in swept}
        /\ files' = [p \in Paths |-> IF p \in gone THEN NullInt ELSE files[p]]
        /\ jobs' = [j \in Ids |-> IF j \in swept /\ committed
                                  THEN expire_job(jobs[j], now)
                                  ELSE jobs[j]]
        /\ UNCHANGED <<now, advances, task>>
        /\ UNCHANGED qvars

(***************************************************************************)
(* The program: the inline upload flow, the dispatcher on any stored job,  *)
(* retry, and the two sweeper passes, with the clock moving in between.    *)
(***************************************************************************)
Next ==
    \/ \E d \in Steps : Advance(d)
    \/ \E j \in Ids, size \in FileSizes : UploadCreate(j, size)
    \/ \E j \in Ids : UploadStart(j)
    \/ \E j \in Ids : UploadError(j)
    \/ \E j \in Ids : UploadFinish(j)
    \/ \E j \in Ids, ok \in BOOLEAN : PdfStart(j, ok)
    \/ \E j \in Ids, exit \in ExitKinds, out \in {NullInt} \cup OutputSizes : PdfRun(j, exit, out)
    \/ \E j \in Ids : PdfFinish(j)
    \/ \E j \in Ids, recovered \in BOOLEAN : PdfCommitFails(j, recovered)
    \/ \E j \in Ids : Retry(j)
    \/ cleanup_stalled_jobs
    \/ \E undeleted \in SUBSET Paths, committed \in BOOLEAN :
          cleanup_expired_files(undeleted, committed)

Spec == Init /\ [][Next]_vars

(***************************************************************************)
(* The state machine alone: a caller creates a job and applies the state   *)
(* operations of ProcessingJob in any order, as tests/test_models.py does. *)
(***************************************************************************)
CreateJob(j, size) ==
    /\ ~ Exists(j)
    /\ jobs' = [jobs EXCEPT ![j] = NewJob(size, UploadPath(j), now)]
    /\ UNCHANGED <<now, advances, files, task>>
    /\ UNCHANGED qvars

NextOps ==
    \/ \E d \in Steps : Advance(d)
    \/ \E j \in Ids, size \in FileSizes : CreateJob(j, size)
    \/ \E j \in Ids : Start(j)
    \/ \E j \in Ids, size \in OutputSizes : Complete(j, size)
    \/ \E j \in Ids, msg \in CallerMsgs : Fail(j, msg)
    \/ \E j \in Ids : Expire(j)
    \/ \E j \in Ids : Retry(j)

SpecOps == Init /\ [][NextOps]_vars

(***************************************************************************)
(* Who may read a job: the user routes (main/routes.py), the session       *)
(* routes (api/processing.py) and the administrator views.  Each route is  *)
(* the HTTP status it answers with; "200" carries the file or the details. *)
(***************************************************************************)
Users == {1, 2}
Admins == {2}
Sessions == {1, 2}

\* FileManager.get_file_download_path, lines 196-222: the path, or none when
\* processed_path is empty or the file is not on disk
get_file_download_path(job, fs) ==
    IF job.processed_path = NullPath THEN NullPath
    ELSE IF fs[job.processed_path] = NullInt THEN NullPath
    ELSE job.processed_path

\* main/routes.py download_file, lines 95-145
download_file_any_user(job, uid, t, fs) ==
    IF job = NoJob THEN "404"
    ELSE IF job.status # "completed" THEN "302"
    ELSE IF is_expired(job, t) THEN "302"
    ELSE IF get_file_download_path(job, fs) = NullPath THEN "302"
    ELSE "200"

download_file(job, uid, t, fs) ==
    IF job = NoJob THEN "404"
    ELSE IF job.user_id # uid THEN "302"
    ELSE IF job.status # "completed" THEN "302"
    ELSE IF is_expired(job, t) THEN "302"
    ELSE IF get_file_download_path(job, fs) = NullPath THEN "302"
    ELSE "200"

\* main/routes.py download_batch, lines 148-238, asked for one job: "200"
\* when the archive holds the job's file, "empty" when the file is skipped
download_batch(job, uid, t, fs) ==
    IF job = NoJob \/ job.user_id # uid \/ job.status # "completed" THEN "403"
    ELSE IF is_expired(job, t) THEN "410"
    ELSE IF get_file_download_path(job, fs) = NullPath THEN "empty"
    ELSE "200"

\* api/processing.py get_job_status, lines 265-316; sid is NullInt when the
\* request carries no session
get_job_status(job, sid) ==
    IF sid = NullInt THEN "401"
    ELSE IF job = NoJob THEN "404"
    ELSE IF job.session_id # sid THEN "403"
    ELSE "200"

\* api/processing.py download_processed_file, lines 321-387; the path comes
\* from job.get_processed_file_path(), the stored processed_path
download_processed_file(job, sid, t, fs) ==
    IF sid = NullInt THEN "401"
    ELSE IF job = NoJob THEN "404"
    ELSE IF job.session_id # sid THEN "403"
    ELSE IF job.status # "completed" THEN "400"
    ELSE IF get_file_download_path(job, fs) = NullPath THEN "404"
    ELSE "200"

\* api/admin.py get_admin_stats, lines 284-340, and main/routes.py
\* admin_dashboard, lines 265-297: the ten most recent jobs of all users,
\* as to_dict gives them, for an administrator
get_admin_stats(job, uid) ==
    IF uid \notin Admins THEN "403"
    ELSE IF job = NoJob THEN "none"
    ELSE "200"

\* the user_id column (models/processing_job.py, line 8)
UserJob(job, uid) == [job EXCEPT !.user_id = uid]

\* The admission of a logged-in user's upload (spec section 2: the file is
\* stored, then the job is created pending for its owner).  The route that
\* does it is not among the sources; the tests store such jobs directly
\* (tests/test_main.py, lines 135-146).

AdmitUserJob(j, uid, size) ==
    /\ ~ Exists(j)
    /\ files' = [files EXCEPT ![UploadPath(j)] = size]
    /\ jobs' = [jobs EXCEPT ![j] = UserJob(NewJob(size, UploadPath(j), now), uid)]
    /\ UNCHANGED <<now, advances, task>>
    /\ UNCHANGED qvars

NextAccess ==
    \/ \E d \in Steps : Advance(d)
    \/ \E j \in Ids, size \in FileSizes : UploadCreate(j, size)
    \/ \E j \in Ids : UploadStart(j)
    \/ \E j \in Ids : UploadFinish(j)
    \/ \E j \in Ids, uid \in Users, size \in FileSizes : AdmitUserJob(j, uid, size)
    \/ \E j \in Ids : PdfStart(j, TRUE)
    \/ \E j \in Ids, exit \in ExitKinds, out \in {NullInt} \cup OutputSizes : PdfRun(j, exit, out)
    \/ \E j \in Ids : PdfFinish(j)
    \/ \E undeleted \in SUBSET Paths, committed \in BOOLEAN :
          cleanup_expired_files(undeleted, committed)

SpecAccess == Init /\ [][NextAccess]_vars

(***************************************************************************)
(* delete_job (api/processing.py, lines 471-515), requested by session sid.*)
(* The route looks the job up by id alone and compares sid with nothing    *)
(* (lines 482-483).  It calls delete_job_files(job.id, None): the file     *)
(* manager that takes these two arguments is not among the sources, and    *)
(* against FileManager.delete_job_files(self, job) (file_manager.py, line  *)
(* 131) the call raises; raised tells which of the two happens.  When it   *)
(* raises, lines 509-515 roll back and answer 500.                         *)
(***************************************************************************)
\* the two-argument delete_job_files: the upload and the processed file of
\* the job are removed
delete_job_files(fs, job) ==
    [p \in Paths |-> IF p \in JobPaths(job) THEN NullInt ELSE fs[p]]

delete_job(j, sid, raised) ==
    /\ Exists(j)
    /\ IF raised
       THEN UNCHANGED <<jobs, files>>
       ELSE /\ files' = delete_job_files(files, jobs[j])
            /\ jobs' = [jobs EXCEPT ![j] = NoJob]
    /\ UNCHANGED <<now, advances, task>>
    /\ UNCHANGED qvars

NextDelete ==
    \/ \E d \in Steps : Advance(d)
    \/ \E j \in Ids, size \in FileSizes : UploadCreate(j, size)
    \/ \E j \in Ids : UploadStart(j)
    \/ \E j \in Ids : UploadError(j)
    \/ \E j \in Ids : PdfStart(j, TRUE)
    \/ \E j \in Ids, exit \in ExitKinds, out \in {NullInt} \cup OutputSizes : PdfRun(j, exit, out)
    \/ \E j \in Ids : PdfFinish(j)
    \/ \E j \in Ids : UploadFinish(j)
    \/ \E j \in Ids, sid \in Sessions, raised \in BOOLEAN :
          task[j].pc = "idle" /\ delete_job(j, sid, raised)

SpecDelete == Init /\ [][NextDelete]_vars

(***************************************************************************)
(* The admission part of upload_file (api/processing.py, lines 28-111):    *)
(* the checks of the request, the save of the file and the commit of the   *)
(* job row.  The answer of the route is kept in req[r].                    *)
(***************************************************************************)
Filenames == {"", "report.pdf", "notes.txt", "contract.pdf"}
Qualities == {"medium", "50", "55", "ultra"}
AdmitSizes == {0, MaxContentLength, MaxContentLength + 1}

\* a request without a file part, and the requests with one
Requests ==
    {[has_file |-> FALSE, filename |-> "", quality |-> "medium", size |-> 0,
      pdf |-> FALSE]}
    \cup [has_file : {TRUE}, filename : Filenames, quality : Qualities,
          size : AdmitSizes, pdf : BOOLEAN]

MsgNoFile == "No file provided"
MsgNoSelection == "No file selected"
MsgQualityRequired == "Quality preset is required"
MsgQualityPercentage == "Invalid quality percentage"
MsgQualityPreset == "Invalid quality preset"
MsgQualityValid == "Quality preset is valid"
MsgNoFilename == "No filename provided"
MsgInvalidCharacter == "Filename contains invalid character"
MsgNoExtension == "File must have an extension"
MsgFileType == "File type not allowed"
MsgSuspicious == "Filename contains suspicious pattern"
MsgFilenameValid == "Filename is valid"
MsgEmpty == "File is empty"
MsgTooLarge == "File size exceeds maximum allowed size"
MsgSizeValid == "File size is valid"
MsgSignature == "File does not appear to be a valid PDF"
MsgValidationPassed == "File validation passed"
MsgSaveFailed == "Failed to save file"
MsgJobError == "Error creating processing job"
MsgCreated == "created"

\* InputValidator.validate_quality_preset (utils/validators.py, lines
\* 288-310): int(quality) of the names of Qualities, where it is a number
QualityInt == [q \in {"50", "55"} |-> IF q = "50" THEN 50 ELSE 55]

validate_quality_preset_any(quality) ==
    MsgQualityValid

validate_quality_preset(quality) ==
    IF quality = "" THEN MsgQualityRequired
    ELSE IF quality \in DOMAIN QualityInt
         THEN IF QualityInt[quality] \in {20, 30, 40, 50, 60, 70}
              THEN MsgQualityValid ELSE MsgQualityPercentage
         ELSE IF quality \in {"high", "medium", "low"}
              THEN MsgQualityValid ELSE MsgQualityPreset

\* FileValidator.validate_filename, lines 64-98, on the names of Filenames:
\* none holds a dangerous character and each has a dot, the extension of
\* notes.txt is txt, and contract.pdf holds the reserved name CON
validate_filename(filename) ==
    IF filename = "" THEN MsgNoFilename
    ELSE IF filename \in {} THEN MsgInvalidCharacter
    ELSE IF filename \in {} THEN MsgNoExtension
    ELSE IF filename \notin {"report.pdf", "contract.pdf"} THEN MsgFileType
    ELSE IF filename \in {"contract.pdf"} THEN MsgSuspicious
    ELSE MsgFilenameValid

\* FileValidator.validate_file_size, lines 100-115
validate_file_size(size) ==
    IF size = 0 THEN MsgEmpty
    ELSE IF size > MaxContentLength THEN MsgTooLarge
    ELSE MsgSizeValid

\* FileValidator.validate_file, lines 37-62, with validate_file_content
\* (117-136): the header of the file starts with %PDF- or not
validate_file(request) ==
    IF validate_filename(request.filename) # MsgFilenameValid
    THEN validate_filename(request.filename)
    ELSE IF validate_file_size(request.size) # MsgSizeValid
    THEN validate_file_size(request.size)
    ELSE IF ~ request.pdf THEN MsgSignature
    ELSE MsgValidationPassed

\* the answer to the checks of lines 28-63, in their order
upload_checks(request) ==
    IF ~ request.has_file THEN MsgNoFile
    ELSE IF request.filename = "" THEN MsgNoSelection
    ELSE IF validate_quality_preset(request.quality) # MsgQualityValid
    THEN validate_quality_preset(request.quality)
    ELSE validate_file(request)

\* save_uploaded_file (services/file_manager.py, lines 48-93) answers
\* success False when anything in it raises: before the file is written
\* (failed) or after it (left: the file is on disk all the same)
SaveOutcomes == {"saved", "failed", "left"}

\* the delete of the saved file that line 105 asks of the file manager
delete_uploaded_file(fs, path) == [fs EXCEPT ![path] = NullInt]

\* the request reaches the route: one request is handled at a time, in the
\* order of Reqs
receive_upload(r, request) ==
    /\ req[r].pc = "idle"
    /\ \A i \in Reqs : i < r => req[i].pc \in {"rejected", "error", "done"}
    /\ req' = [req EXCEPT ![r] = [pc |-> "received", size |-> request.size,
                                  message |-> NullStr, request |-> request]]
    /\ UNCHANGED <<now, advances, jobs, files, task, quota, retried, current_user>>

Answer(pc, message) == [pc |-> pc, size |-> 0, message |-> message]

upload_file(j, r, save, committed) ==
    /\ req[r].pc = "received"
    /\ ~ Exists(j)
    /\ LET request == req[r].request
           message == upload_checks(request)
           saved == [files EXCEPT ![UploadPath(j)] = request.size]
       IN  IF message # MsgValidationPassed
           THEN /\ req' = [req EXCEPT ![r] = Answer("rejected", message)]
                /\ UNCHANGED <<jobs, files, task>>
           ELSE IF save # "saved"
           THEN /\ req' = [req EXCEPT ![r] = Answer("error", MsgSaveFailed)]
                /\ files' = IF save = "left" THEN saved ELSE files
                /\ UNCHANGED <<jobs, task>>
           ELSE IF ~ committed
           THEN /\ req' = [req EXCEPT ![r] = Answer("error", MsgJobError)]
                /\ files' = delete_uploaded_file(saved, UploadPath(j))
                /\ UNCHANGED <<jobs, task>>
           ELSE /\ req' = [req EXCEPT ![r] = Answer("done", MsgCreated)]
                /\ files' = saved
                /\ jobs' = [jobs EXCEPT ![j] =
                               SessionJob(NewJob(request.size, UploadPath(j), now),
                                          UploadSession)]
                /\ task' = [task EXCEPT ![j] =
                               [IdleTask EXCEPT !.pc = "created", !.inline = TRUE]]
    /\ UNCHANGED <<now, advances, quota, retried, current_user>>

NextAdmit ==
    \/ \E r \in Reqs, request \in Requests : receive_upload(r, request)
    \/ \E j \in Ids, r \in Reqs, save \in SaveOutcomes, committed \in BOOLEAN :
          upload_file(j, r, save, committed)
    \/ \E j \in Ids : UploadStart(j)
    \/ \E j \in Ids : UploadError(j)

SpecAdmit == Init /\ [][NextAdmit]_vars

(***************************************************************************)
(* The RateLimiter (utils/security.py) as the uploads of one user call it: *)
(* check_upload_limits before the job is created, update_upload_counters   *)
(* after the file is stored.  Nothing is locked between the two.           *)
(***************************************************************************)
QuotaSizes == {MB, MaxContentLength}

\* check_upload_limits, lines 152-162; the reset inside can_upload_file is
\* committed at once (user.py, line 51)
check_upload_limits(r, file_size) ==
    /\ req[r].pc = "idle"
    /\ LET q == reset_daily_counters_if_needed(quota, Today(now))
           message == IF ~ RateLimitsEnabled THEN "Rate limiting disabled"
                      ELSE can_upload_file(q, file_size)
           allowed == ~ RateLimitsEnabled \/ message = MsgAllowed
       IN  /\ quota' = q
           /\ req' = [req EXCEPT ![r] =
                         [pc |-> IF allowed THEN "allowed" ELSE "denied",
                          size |-> file_size, message |-> message]]
    /\ UNCHANGED <<now, advances, jobs, files, task, retried, current_user>>

\* update_upload_counters, lines 164-170, called for an upload that passed
\* the check
update_upload_counters(r) ==
    /\ req[r].pc = "allowed"
    /\ quota' = IF RateLimitsEnabled
                THEN update_usage_counters(quota, req[r].size) ELSE quota
    /\ req' = [req EXCEPT ![r].pc = "done"]
    /\ UNCHANGED <<now, advances, jobs, files, task, retried, current_user>>

\* clear_user_session_storage, lines 201-204
clear_user_session_storage ==
    /\ quota.session_storage_used > 0
    /\ quota' = clear_session_storage(quota)
    /\ UNCHANGED <<now, advances, jobs, files, task, req, retried, current_user>>

\* Counters a user can have at the start of a day's run: those of a new
\* user; 8 uploads of 199.5 MB in all with the session cleared since
\* (scenario E); 7 uploads of 25 MB with the session cleared since; 49
\* uploads of 1 MB; 3 uploads of 25 MB.
QuotaStates ==
    {NewQuota,
     [NewQuota EXCEPT !.daily_file_count = 8,
                      !.daily_storage_used = 200 * MB - MB \div 2],
     [NewQuota EXCEPT !.daily_file_count = 7,
                      !.daily_storage_used = 7 * MaxContentLength],
     [NewQuota EXCEPT !.daily_file_count = 49,
                      !.daily_storage_used = 49 * MB,
                      !.session_storage_used = 49 * MB],
     [NewQuota EXCEPT !.daily_file_count = 3,
                      !.daily_storage_used = 3 * MaxContentLength,
                      !.session_storage_used = 3 * MaxContentLength]}

InitQuota ==
    /\ now = 0
    /\ advances = 0
    /\ jobs = [j \in Ids |-> NoJob]
    /\ files = [p \in Paths |-> NullInt]
    /\ task = [j \in Ids |-> IdleTask]
    /\ quota \in QuotaStates
    /\ req = [r \in Reqs |-> IdleReq]
    /\ retried = [j \in Ids |-> 0]
    /\ current_user = NullInt

NextQuota ==
    \/ \E d \in Steps : Advance(d)
    \/ \E j \in Ids, size \in QuotaSizes : UploadCreate(j, size)
    \/ \E r \in Reqs, size \in QuotaSizes : check_upload_limits(r, size)
    \/ \E r \in Reqs : update_upload_counters(r)
    \/ clear_user_session_storage

SpecQuota == InitQuota /\ [][NextQuota]_vars

(***************************************************************************)
(* Login and logout (auth/routes.py) of the user whose counters quota      *)
(* holds; the quota steps of that user's uploads run while logged in.      *)
(***************************************************************************)
\* login, lines 165-275: login_user(user) at line 245
login(uid) ==
    /\ current_user = NullInt
    /\ current_user' = uid
    /\ UNCHANGED <<now, advances, jobs, files, task, quota, req, retried>>

\* logout, lines 277-309: the audit entry and logout_user(); no counter of
\* the user is written
logout ==
    /\ current_user # NullInt
    /\ current_user' = NullInt
    /\ UNCHANGED <<now, advances, jobs, files, task, quota, req, retried>>

NextLogout ==
    \/ \E uid \in {1} : login(uid)
    \/ logout
    \/ \E r \in Reqs, size \in QuotaSizes :
          current_user # NullInt /\ check_upload_limits(r, size)
    \/ \E r \in Reqs : current_user # NullInt /\ update_upload_counters(r)
    \/ current_user # NullInt /\ clear_user_session_storage

SpecLogout == InitQuota /\ [][NextLogout]_vars

(***************************************************************************)
(* update_upload_counters as concurrent requests of one user run it.  Each *)
(* request works on the User object of its own database session:           *)
(* update_usage_counters (user.py, lines 75-77) reads the three counters   *)
(* of that object and assigns the sums to it, and the commit               *)
(* (security.py, line 170) writes the assigned values to the row.  Nothing *)
(* locks the row between the read and the write.                           *)
(***************************************************************************)
\* the request reads the row into its session and computes the new counters
read_usage_counters(r) ==
    /\ req[r].pc = "allowed"
    /\ RateLimitsEnabled
    /\ req' = [req EXCEPT ![r] =
                  [pc |-> "updating", size |-> req[r].size, message |-> req[r].message,
                   user |-> update_usage_counters(quota, req[r].size)]]
    /\ UNCHANGED <<now, advances, jobs, files, task, quota, retried, current_user>>

\* db.session.commit(): the UPDATE sets the three columns that were assigned
commit_usage_counters(r) ==
    /\ req[r].pc = "updating"
    /\ quota' = [quota EXCEPT
                    !.daily_file_count = req[r].user.daily_file_count,
                    !.daily_storage_used = req[r].user.daily_storage_used,
                    !.session_storage_used = req[r].user.session_storage_used]
    /\ req' = [req EXCEPT ![r] =
                  [pc |-> "done", size |-> req[r].size, message |-> req[r].message]]
    /\ UNCHANGED <<now, advances, jobs, files, task, retried, current_user>>

NextRace ==
    \/ \E r \in Reqs, size \in QuotaSizes : check_upload_limits(r, size)
    \/ \E r \in Reqs : read_usage_counters(r)
    \/ \E r \in Reqs : commit_usage_counters(r)

SpecRace == InitQuota /\ [][NextRace]_vars

(***************************************************************************)
(* The retry loop with its transitions counted: the inline upload flow,    *)
(* the dispatcher, the stalled pass and retry, with the clock stepping     *)
(* past the stall window.                                                  *)
(***************************************************************************)
StallSteps == {1, StallSeconds + 1}

\* reset_for_retry, lines 107-116, with the transition it makes counted
RetryCounted(j) ==
    /\ Exists(j)
    /\ retried[j] < MaxRetried
    /\ jobs' = [jobs EXCEPT ![j] = reset_for_retry(jobs[j], now)]
    /\ retried' = [retried EXCEPT ![j] =
                      IF jobs[j].status = "failed" /\ jobs'[j].status = "pending"
                      THEN @ + 1 ELSE @]
    /\ UNCHANGED <<now, advances, files, task, quota, req, current_user>>

NextRetry ==
    \/ \E d \in StallSteps : Advance(d)
    \/ \E j \in Ids, size \in FileSizes : UploadCreate(j, size)
    \/ \E j \in Ids : UploadStart(j)
    \/ \E j \in Ids : UploadError(j)
    \/ \E j \in Ids : UploadFinish(j)
    \/ \E j \in Ids, ok \in BOOLEAN : PdfStart(j, ok)
    \/ \E j \in Ids, exit \in ExitKinds, out \in {NullInt} \cup OutputSizes : PdfRun(j, exit, out)
    \/ \E j \in Ids : PdfFinish(j)
    \/ \E j \in Ids : RetryCounted(j)
    \/ cleanup_stalled_jobs

SpecRetry == Init /\ [][NextRetry]_vars

(***************************************************************************)
(* The listing of a user's active jobs (ProcessingJob.get_user_active_jobs)*)
(* over a table of two jobs that two users store and a caller moves        *)
(* through the state operations, as tests/test_models.py does.             *)
(***************************************************************************)
ActiveIds == {1, 2}
ActiveStatuses == {"pending", "processing", "completed"}

\* the rows the three filters keep, lines 208-211
ActiveRows_any_expiry(tbl, uid, t) ==
    {j \in DOMAIN tbl : /\ tbl[j] # NoJob
                        /\ tbl[j].user_id = uid
                        /\ tbl[j].status \in ActiveStatuses}

ActiveRows(tbl, uid, t) ==
    {j \in DOMAIN tbl : /\ tbl[j] # NoJob
                        /\ tbl[j].user_id = uid
                        /\ tbl[j].status \in ActiveStatuses
                        /\ tbl[j].expires_at > t}

\* order_by(created_at.desc()), line 212: every list of the kept rows that
\* is in descending order of created_at; rows created at the same instant
\* come in either order
get_user_active_jobs(tbl, uid, t) ==
    LET rows == ActiveRows(tbl, uid, t)
        n == Cardinality(rows)
    IN  {s \in [1 .. n -> rows] :
            /\ \A a, b \in 1 .. n : a # b => s[a] # s[b]
            /\ \A a, b \in 1 .. n :
                  a < b => tbl[s[a]].created_at >= tbl[s[b]].created_at}

\* a job stored for a user, as the tests store one (user_id, sizes, path)
StoreUserJob(j, uid, size) ==
    /\ jobs[j] = NoJob
    /\ jobs' = [jobs EXCEPT ![j] = UserJob(NewJob(size, UploadPath(j), now), uid)]
    /\ UNCHANGED <<now, advances, files, task>>
    /\ UNCHANGED qvars

InitActive ==
    /\ now = 0
    /\ advances = 0
    /\ jobs = [j \in ActiveIds |-> NoJob]
    /\ files = [p \in Paths |-> NullInt]
    /\ task = [j \in Ids |-> IdleTask]
    /\ quota = NewQuota
    /\ req = [r \in Reqs |-> IdleReq]
    /\ retried = [j \in Ids |-> 0]
    /\ current_user = NullInt

NextActive ==
    \/ \E d \in Steps : Advance(d)
    \/ \E j \in ActiveIds, uid \in Users, size \in FileSizes : StoreUserJob(j, uid, size)
    \/ \E j \in ActiveIds : jobs[j].status = "pending" /\ Start(j)
    \/ \E j \in ActiveIds, size \in {512} : jobs[j].status = "processing" /\ Complete(j, size)
    \/ \E j \in ActiveIds : jobs[j].status = "processing" /\ Fail(j, MsgCaller)
    \/ \E j \in ActiveIds : Exists(j) /\ Expire(j)

SpecActive == InitActive /\ [][NextActive]_vars

(***************************************************************************)
(* The stalled pass (cleanup_jobs.py main, lines 24-44) over the table of  *)
(* two jobs, with the clock stepping by one second, by the stall window    *)
(* and by the retention.                                                   *)
(***************************************************************************)
StallWindowSteps == {1, StallSeconds, RetentionSeconds}

NextStall ==
    \/ \E d \in StallWindowSteps : Advance(d)
    \/ \E j \in ActiveIds, uid \in {1}, size \in FileSizes : StoreUserJob(j, uid, size)
    \/ \E j \in ActiveIds : jobs[j].status = "pending" /\ Start(j)
    \/ \E j \in ActiveIds, size \in {512} : jobs[j].status = "processing" /\ Complete(j, size)
    \/ \E j \in ActiveIds : jobs[j].status = "processing" /\ Fail(j, MsgCaller)
    \/ \E j \in ActiveIds : Exists(j) /\ Expire(j)
    \/ cleanup_stalled_jobs

SpecStall == InitActive /\ [][NextStall]_vars

(***************************************************************************)
(* Clear session (FileManager.clear_user_session_files, lines 160-194) of  *)
(* a user, interleaved with the dispatcher working on that user's job and  *)
(* with the expiry sweep.                                                  *)
(***************************************************************************)
\* lines 164-174: the files of every active job of the user are deleted and
\* the session counter is cleared; the rows are left as they are
clear_user_session_files(uid) ==
    LET active == ActiveRows(jobs, uid, now)
        gone == UNION {JobPaths(jobs[j]) : j \in active}
    IN  /\ files' = [p \in Paths |-> IF p \in gone THEN NullInt ELSE files[p]]
        /\ quota' = clear_session_storage(quota)
        /\ UNCHANGED <<now, advances, jobs, task, req, retried, current_user>>

NextClear ==
    \/ \E d \in Steps : Advance(d)
    \/ \E j \in Ids, uid \in Users, size \in FileSizes : AdmitUserJob(j, uid, size)
    \/ \E j \in Ids : PdfStart(j, TRUE)
    \/ \E j \in Ids, exit \in ExitKinds, out \in {NullInt} \cup OutputSizes : PdfRun(j, exit, out)
    \/ \E j \in Ids : PdfFinish(j)
    \/ \E uid \in Users : clear_user_session_files(uid)
    \/ \E undeleted \in SUBSET Paths, committed \in BOOLEAN :
          cleanup_expired_files(undeleted, committed)

SpecClear == Init /\ [][NextClear]_vars

(***************************************************************************)
(* Properties.                                                             *)
(***************************************************************************)

\* C1: in every reachable state and for every job, processed_size and
\* processed_path are both set if and only if the status is completed.
ProcessedSetIffCompleted ==
    \A j \in Ids : Exists(j) =>
        ((jobs[j].processed_size # NullInt /\ jobs[j].processed_path # NullPath)
            <=> jobs[j].status = "completed")

\* C2: start applied to a job whose status is not pending leaves every field
\* of the job unchanged.
StartOnlyFromPending ==
    [][\A j \in Ids :
          (Exists(j) /\ jobs[j].status # "pending" /\ \E ok \in BOOLEAN : PdfStart(j, ok))
              => jobs'[j] = jobs[j]]_vars

\* C3: retry leaves the job unchanged whenever the status is not failed, or
\* retry_count >= max_retries, or now >= expires_at (the instant
\* now = expires_at included).
RetryRefusedAtOrAfterExpiry ==
    [][\A j \in Ids :
          (/\ Exists(j)
           /\ \/ jobs[j].status # "failed"
              \/ jobs[j].retry_count >= MaxRetries
              \/ now >= jobs[j].expires_at
           /\ Retry(j))
              => jobs'[j] = jobs[j]]_vars

\* C4: in every reachable state every job's status is one of pending,
\* processing, completed, failed, expired.
StatusValid ==
    \A j \in Ids : Exists(j) => jobs[j].status \in Statuses

\* a job that failed, was retried and completed, and was then swept
StatusValidWitness ==
    \E j \in Ids :
        /\ Exists(j)
        /\ jobs[j].status = "expired"
        /\ jobs[j].retry_count > 0
        /\ jobs[j].processed_path # NullPath
        /\ files[jobs[j].upload_path] = NullInt

\* C5: expired is terminal: once a job's status is expired it never changes.
ExpiredIsTerminal ==
    [][\A j \in Ids :
          (Exists(j) /\ jobs[j].status = "expired") => jobs'[j].status = "expired"]_vars

\* C6: a completion takes effect only on a job whose status is processing:
\* no step writes a completion into a job that is pending, failed, completed
\* or expired.
CompleteOnlyFromProcessing ==
    [][\A j \in Ids :
          (Exists(j) /\ jobs'[j].status = "completed" /\ jobs'[j] # jobs[j])
              => jobs[j].status = "processing"]_vars

\* C7: fail(job, message) applied to a pending or processing job sets
\* status = failed, error_message = message, completed_at = now and increases
\* retry_count by exactly 1.
FailSetsFields ==
    [][\A j \in Ids, msg \in CallerMsgs :
          (Exists(j) /\ jobs[j].status \in {"pending", "processing"} /\ Fail(j, msg))
              => /\ jobs'[j].status = "failed"
                 /\ jobs'[j].error_message = msg
                 /\ jobs'[j].completed_at = now
                 /\ jobs'[j].retry_count = jobs[j].retry_count + 1]_vars

\* a job failed a second time, straight from pending, at the current instant
FailSetsFieldsWitness ==
    \E j \in Ids :
        /\ Exists(j)
        /\ jobs[j].status = "failed"
        /\ jobs[j].error_message = MsgOther
        /\ jobs[j].started_at = NullInt
        /\ jobs[j].completed_at = now
        /\ now > 0
        /\ jobs[j].retry_count = 2

RetryCountBounded ==
    \A j \in Ids : Exists(j) =>
        (0 <= jobs[j].retry_count /\ jobs[j].retry_count <= MaxRetries)

\* C10: the dispatcher ends the job in completed exactly when the transform
\* reported success and the output file exists and its size is > 0, and in
\* failed in every other outcome.
CompletedIffNonEmptyOutput ==
    [][\A j \in Ids :
          PdfFinish(j)
              => LET good == /\ execute_ghostscript(task[j].exit)
                             /\ files[ProcessedPath(j)] # NullInt
                             /\ files[ProcessedPath(j)] > 0
                 IN  /\ good => jobs'[j].status = "completed"
                     /\ ~ good => jobs'[j].status = "failed"]_vars

\* C11: when the dispatcher task ends (process_pdf has returned to the
\* thread that ran it, or to upload_file and that has stored the result), on
\* any path, an exception in the task body included, the job it moved to
\* processing is completed or failed, so no run leaves it in processing.
TaskEndLeavesProcessing ==
    [][\A j \in Ids :
          (/\ task[j].pc \in {"started", "ran", "returned"}
           /\ task'[j].pc = "idle")
              => jobs'[j].status \in {"completed", "failed"}]_vars

\* C12: a transform that exceeds the timeout ends the job failed with
\* retry_count one higher and an error_message that differs from the one
\* given for a nonzero exit and from the one given for a missing output.
TimeoutMessageDistinct ==
    [][\A j \in Ids :
          (PdfFinish(j) /\ task[j].exit = "timeout")
              => /\ jobs'[j].status = "failed"
                 /\ jobs'[j].retry_count = jobs[j].retry_count + 1
                 /\ jobs'[j].error_message # error_msg("nonzero", files[ProcessedPath(j)])
                 /\ jobs'[j].error_message # error_msg("exit0", NullInt)]_vars

\* C20: a completion or failure reported by a transform invocation whose job
\* has meanwhile left processing (failed by the stalled pass, retried,
\* expired) changes nothing in the job.
SupersededReportIgnored ==
    [][\A j \in Ids :
          ((PdfFinish(j) \/ \E r \in BOOLEAN : PdfCommitFails(j, r))
              /\ jobs[j].status # "processing")
              => jobs'[j] = jobs[j]]_vars

NoDownloadPastExpiry ==
    \A j \in Ids :
        (Exists(j) /\ now > jobs[j].expires_at)
            => /\ \A uid \in Users :
                     /\ download_file(jobs[j], uid, now, files) # "200"
                     /\ download_batch(jobs[j], uid, now, files) # "200"
               /\ \A sid \in Sessions :
                     download_processed_file(jobs[j], sid, now, files) # "200"

\* C19 as stated: nobody but the owner of a job receives its processed file
\* or its details, from any route.
OnlyOwnerReceives ==
    \A j \in Ids :
        Exists(j)
            => /\ \A uid \in Users :
                     uid # jobs[j].user_id
                         => /\ download_file(jobs[j], uid, now, files) # "200"
                            /\ download_batch(jobs[j], uid, now, files) \notin {"200", "empty"}
                            /\ get_admin_stats(jobs[j], uid) # "200"
               /\ \A sid \in Sessions \cup {NullInt} :
                     sid # jobs[j].session_id
                         => /\ get_job_status(jobs[j], sid) # "200"
                            /\ download_processed_file(jobs[j], sid, now, files) # "200"

\* C19 amended: the status and download routes answer with the file or the
\* details only to the owner (the user of a user's job, the session of a
\* session's job); the administrator views show a job's details, never its
\* file, to administrators and to nobody else.
OwnerOrAdminReceives ==
    \A j \in Ids :
        Exists(j)
            => /\ \A uid \in Users :
                     /\ uid # jobs[j].user_id
                         => /\ download_file(jobs[j], uid, now, files) # "200"
                            /\ download_batch(jobs[j], uid, now, files) \notin {"200", "empty"}
                     /\ uid \notin Admins => get_admin_stats(jobs[j], uid) # "200"
               /\ \A sid \in Sessions \cup {NullInt} :
                     sid # jobs[j].session_id
                         => /\ get_job_status(jobs[j], sid) # "200"
                            /\ download_processed_file(jobs[j], sid, now, files) # "200"

\* a user's completed job whose file is on disk and is served to its owner
OwnerOrAdminReceivesWitness ==
    \E j \in Ids :
        /\ Exists(j)
        /\ jobs[j].user_id \in Users
        /\ download_file(jobs[j], jobs[j].user_id, now, files) = "200"
        /\ \E uid \in Users : download_file(jobs[j], uid, now, files) = "302"

\* C13: after the lazy daily reset the check denies with the daily-file
\* reason iff daily_file_count >= the daily file limit; otherwise with the
\* daily-storage reason iff daily_storage_used + file_size > the daily
\* storage limit; otherwise with the session reason iff session_storage_used
\* + file_size > the session limit; otherwise it allows, so a file that
\* exactly fills a storage limit is allowed.
CheckCascade ==
    [][\A r \in Reqs, size \in QuotaSizes :
          check_upload_limits(r, size)
              => LET files_full == quota'.daily_file_count >= 50
                     daily_over == quota'.daily_storage_used + size > 200 * 1024 * 1024
                     session_over == quota'.session_storage_used + size > 100 * 1024 * 1024
                 IN  /\ quota'.last_reset_date = Today(now)
                     /\ quota.last_reset_date < Today(now)
                           => /\ quota'.daily_file_count = 0
                              /\ quota'.daily_storage_used = 0
                     /\ quota.last_reset_date >= Today(now) => quota' = quota
                     /\ req'[r].message = MsgDailyFiles <=> files_full
                     /\ req'[r].message = MsgDailyStorage
                           <=> (~ files_full /\ daily_over)
                     /\ req'[r].message = MsgSessionStorage
                           <=> (~ files_full /\ ~ daily_over /\ session_over)
                     /\ req'[r].pc = "allowed"
                           <=> (~ files_full /\ ~ daily_over /\ ~ session_over)
                     /\ req'[r].pc = "denied" <=> req'[r].pc # "allowed"]_vars

\* an upload that filled the daily storage limit exactly was allowed and
\* has committed, and the next one is denied with the daily-storage reason
CheckCascadeWitness ==
    /\ quota.daily_storage_used = DailyStorageLimitMB * MB
    /\ \E r \in Reqs : req[r].pc = "done"
    /\ \E r \in Reqs : req[r].pc = "denied" /\ req[r].message = MsgDailyStorage

\* C14: an upload for which the quota check would deny creates no job.
NoJobWhenQuotaDenies ==
    [][\A j \in Ids, size \in QuotaSizes :
          UploadCreate(j, size)
              => can_upload_file(reset_daily_counters_if_needed(quota, Today(now)),
                                 size) = MsgAllowed]_vars

\* C15: an admission that creates a job adds one file and the file's size
\* to the owner's counters, in the same step.
JobCreationCommitsQuota ==
    [][\A j \in Ids, size \in QuotaSizes :
          UploadCreate(j, size)
              => LET q == reset_daily_counters_if_needed(quota, Today(now))
                 IN  /\ quota'.daily_file_count = q.daily_file_count + 1
                     /\ quota'.daily_storage_used = q.daily_storage_used + size
                     /\ quota'.session_storage_used = q.session_storage_used + size]_vars

\* C16 as stated: daily_storage_used never exceeds the daily storage limit
\* by more than the size of one file.
OvershootOneFile ==
    quota.daily_storage_used <= DailyStorageLimitMB * MB + MaxContentLength

\* C16 amended: with n uploads of one user between check and commit at the
\* same time, daily_storage_used never exceeds the daily storage limit by
\* more than the sizes of n - 1 of them.
OvershootAllButOne ==
    quota.daily_storage_used
        <= DailyStorageLimitMB * MB + (MaxRequests - 1) * MaxContentLength

\* the limit is exceeded after concurrent uploads have all committed
OvershootAllButOneWitness ==
    /\ quota.daily_storage_used > DailyStorageLimitMB * MB
    /\ \A r \in Reqs : req[r].pc = "done"

CountersDecreaseOnlyByReset ==
    [][/\ quota'.daily_file_count >= 0
       /\ quota'.daily_storage_used >= 0
       /\ quota'.session_storage_used >= 0
       /\ (\/ quota'.daily_file_count < quota.daily_file_count
           \/ quota'.daily_storage_used < quota.daily_storage_used)
             => /\ quota.last_reset_date < Today(now)
                /\ quota'.last_reset_date = Today(now)
                /\ quota'.daily_file_count = 0
                /\ quota'.daily_storage_used = 0
       /\ quota'.last_reset_date # quota.last_reset_date
             => quota'.session_storage_used = quota.session_storage_used
       /\ quota'.session_storage_used < quota.session_storage_used
             => /\ quota'.session_storage_used = 0
                /\ quota'.daily_file_count = quota.daily_file_count
                /\ quota'.daily_storage_used = quota.daily_storage_used
                /\ quota'.last_reset_date = quota.last_reset_date]_vars

\* a day reset has happened and the session bytes are still there
CountersDecreaseOnlyByResetWitness ==
    /\ quota.last_reset_date > 0
    /\ quota.daily_storage_used = 0
    /\ quota.daily_file_count = 0
    /\ quota.session_storage_used > 0

\* C27: the commit of an upload of file_size bytes adds 1 to
\* daily_file_count and file_size to daily_storage_used and to
\* session_storage_used, and changes nothing else of the user.
CommitAddsOneFile ==
    [][\A r \in Reqs :
          update_upload_counters(r)
              => /\ quota'.daily_file_count = quota.daily_file_count + 1
                 /\ quota'.daily_storage_used = quota.daily_storage_used + req[r].size
                 /\ quota'.session_storage_used
                        = quota.session_storage_used + req[r].size
                 /\ quota'.last_reset_date = quota.last_reset_date
                 /\ DOMAIN quota' = DOMAIN quota]_vars

\* a first upload of 1 MB has committed on fresh counters
CommitAddsOneFileWitness ==
    /\ quota.daily_file_count = 1
    /\ quota.daily_storage_used = 1048576
    /\ quota.session_storage_used = 1048576
    /\ \E r \in Reqs : req[r].pc = "done" /\ req[r].size = 1048576

\* C25: started_at is set exactly when the job is processing, completed or
\* failed; it is null for a pending and for an expired job.
StartedAtIffStarted ==
    \A j \in Ids :
        Exists(j)
            => (jobs[j].started_at # NullInt
                    <=> jobs[j].status \in {"processing", "completed", "failed"})

ExpireOnlyWhenExpired ==
    [][\A j \in Ids :
          Expire(j)
              => IF now > jobs[j].expires_at
                 THEN /\ expire_job_reports(jobs[j], now)
                      /\ jobs'[j] = [jobs[j] EXCEPT !.status = "expired"]
                 ELSE /\ ~ expire_job_reports(jobs[j], now)
                      /\ jobs'[j] = jobs[j]]_vars

\* a job that failed twice and was then expired keeps its other fields
ExpireOnlyWhenExpiredWitness ==
    \E j \in Ids :
        /\ Exists(j)
        /\ jobs[j].status = "expired"
        /\ jobs[j].retry_count = 2
        /\ jobs[j].error_message # NullStr
        /\ now > jobs[j].expires_at

\* C29: no job makes more than max_retries (3) transitions from failed to
\* pending, whichever path failed it.
AtMostThreeRetries ==
    \A j \in Ids : retried[j] <= 3

\* C28: the active jobs of a user are exactly that user's jobs in pending,
\* processing or completed whose expires_at is later than now, each once,
\* newest first; a completed job past its expiry and another user's job are
\* not among them.
ActiveJobsExact ==
    \A uid \in Users :
        /\ get_user_active_jobs(jobs, uid, now) # {}
        /\ \A s \in get_user_active_jobs(jobs, uid, now) :
              /\ \A j \in ActiveIds :
                    (\E a \in DOMAIN s : s[a] = j)
                        <=> /\ jobs[j] # NoJob
                            /\ jobs[j].user_id = uid
                            /\ jobs[j].status \in {"pending", "processing", "completed"}
                            /\ now < jobs[j].expires_at
              /\ \A a, b \in DOMAIN s :
                    /\ a # b => s[a] # s[b]
                    /\ a < b => jobs[s[a]].created_at >= jobs[s[b]].created_at

\* user 1 has a completed job that is past its expiry and a newer job that is
\* still active: the list holds the newer one only
ActiveJobsExactWitness ==
    /\ \E j \in ActiveIds :
          /\ jobs[j] # NoJob
          /\ jobs[j].user_id = 1
          /\ jobs[j].status = "completed"
          /\ now >= jobs[j].expires_at
    /\ \E s \in get_user_active_jobs(jobs, 1, now) : Len(s) = 1

StalledPassChangesExactlyStalled ==
    [][cleanup_stalled_jobs =>
          \A j \in ActiveIds :
              IF /\ jobs[j] # NoJob
                 /\ jobs[j].status = "pending"
                 /\ now - jobs[j].created_at > 600
              THEN /\ jobs'[j].status = "failed"
                   /\ jobs'[j].error_message = MsgStalled
                   /\ jobs'[j].retry_count = jobs[j].retry_count
                   /\ jobs'[j].created_at = jobs[j].created_at
              ELSE jobs'[j] = jobs[j]]_vars

\* the pass has just failed one job, and left pending a job that is exactly
\* as old as the timeout
StalledPassChangesExactlyStalledWitness ==
    /\ \E j \in ActiveIds :
          /\ jobs[j] # NoJob
          /\ jobs[j].status = "failed"
          /\ jobs[j].error_message = MsgStalled
          /\ jobs[j].completed_at = now
    /\ \E j \in ActiveIds :
          /\ jobs[j] # NoJob
          /\ jobs[j].status = "pending"
          /\ now - jobs[j].created_at = StallSeconds

\* C32: a run of the periodic sweeper (the cleanup thread of the file
\* manager) moves every job that is pending past the stall timeout to failed.
SweeperRunFailsStalled ==
    [][\A undeleted \in SUBSET Paths, committed \in BOOLEAN :
          cleanup_expired_files(undeleted, committed)
              => \A j \in Ids :
                    (/\ jobs[j] # NoJob
                     /\ jobs[j].status = "pending"
                     /\ now - jobs[j].created_at > StallSeconds)
                        => jobs'[j].status = "failed"]_vars

\* C33: the expiry sweep deletes the files of a job before it marks the job
\* expired: a sweep interrupted before its commit leaves the job with the
\* status it had and its files gone, and a sweep that finds an unexpired job
\* past its expiry with no file left marks it expired and touches no file.
InterruptedSweepHeals ==
    [][\A undeleted \in SUBSET Paths, committed \in BOOLEAN :
          cleanup_expired_files(undeleted, committed)
              => \A j \in Ids :
                    (jobs[j] # NoJob /\ jobs[j].expires_at < now)
                        => /\ ~ committed
                                 => /\ jobs'[j] = jobs[j]
                                    /\ \A p \in JobPaths(jobs[j]) \ undeleted :
                                          files'[p] = NullInt
                           /\ (/\ committed
                               /\ \A p \in JobPaths(jobs[j]) : files[p] = NullInt)
                                 => /\ jobs'[j].status = "expired"
                                    /\ files' = files]_vars

\* the state an interrupted sweep leaves: a job past its expiry that is not
\* marked expired and whose upload file is gone
InterruptedSweepHealsWitness ==
    \E j \in Ids :
        /\ Exists(j)
        /\ jobs[j].expires_at < now
        /\ jobs[j].status \in {"pending", "completed", "failed"}
        /\ task[j].pc = "idle"
        /\ \A p \in JobPaths(jobs[j]) : files[p] = NullInt

\* C34: the lazy reset at the start of a quota check sets daily_file_count
\* and daily_storage_used to 0 and last_reset_date to today exactly when the
\* stored last_reset_date is earlier than today, and leaves
\* session_storage_used alone; when the stored date is today the check
\* changes no counter, so a second check on the same day resets nothing.
LazyResetOncePerDay ==
    [][\A r \in Reqs, size \in QuotaSizes :
          check_upload_limits(r, size)
              => /\ quota.last_reset_date < now \div 86400
                       => /\ quota'.daily_file_count = 0
                          /\ quota'.daily_storage_used = 0
                          /\ quota'.last_reset_date = now \div 86400
                          /\ quota'.session_storage_used = quota.session_storage_used
                 /\ quota.last_reset_date >= now \div 86400 => quota' = quota
                 /\ quota'.last_reset_date >= now \div 86400]_vars

\* on a later day the counters were reset, an upload was committed, and
\* another check of the same day left its count in place
LazyResetOncePerDayWitness ==
    /\ quota.last_reset_date > 0
    /\ quota.last_reset_date = Today(now)
    /\ quota.daily_file_count = 1
    /\ \E r \in Reqs : req[r].pc = "done"
    /\ \E r \in Reqs : req[r].pc \in {"allowed", "denied"}

\* C35: logging out resets the session counter of the user: after a logout
\* session_storage_used is 0.
LogoutClearsSessionStorage ==
    [][logout => quota'.session_storage_used = 0]_vars

\* C36: the inline path applies the same sequence to the job as the
\* asynchronous path, one start and then one complete or one fail: when
\* process_pdf starts a job inside an upload request the job has not been
\* started by the request before, and what the request writes after
\* process_pdf has returned changes none of status, retry_count,
\* processed_size, processed_path and error_message.
InlineSameSequenceAsAsync ==
    [][\A j \in Ids :
          /\ \A ok \in BOOLEAN :
                (task[j].pc = "upstarted" /\ PdfStart(j, ok))
                    => jobs[j].status = "pending"
          /\ UploadFinish(j)
                => /\ jobs'[j].status = jobs[j].status
                   /\ jobs'[j].retry_count = jobs[j].retry_count
                   /\ jobs'[j].processed_size = jobs[j].processed_size
                   /\ jobs'[j].processed_path = jobs[j].processed_path
                   /\ jobs'[j].error_message = jobs[j].error_message]_vars

\* C37: the progress value is 0 for a pending job, from 5 to 95 for a
\* processing job at every elapsed time, 100 for a completed job and 0 for a
\* failed or an expired job.
ProgressInRange ==
    \A j \in Ids :
        Exists(j) =>
            LET progress == get_progress_info(jobs[j], now)
            IN  /\ jobs[j].status = "pending" => progress = 0
                /\ jobs[j].status = "processing" => progress >= 5 /\ progress <= 95
                /\ jobs[j].status = "completed" => progress = 100
                /\ jobs[j].status \in {"failed", "expired"} => progress = 0

\* C38: no quota commit is lost: within one day and with no reset in between,
\* every commit of an upload leaves the stored daily_file_count one higher and
\* the stored daily_storage_used and session_storage_used higher by the size
\* of its file, however the requests interleave (so k commits add k files and
\* the sum of their sizes).
NoCommitLost ==
    [][\A r \in Reqs :
          commit_usage_counters(r)
              => /\ quota'.daily_file_count = quota.daily_file_count + 1
                 /\ quota'.daily_storage_used = quota.daily_storage_used + req[r].size
                 /\ quota'.session_storage_used
                        = quota.session_storage_used + req[r].size]_vars

\* C39: while a job is pending or processing no step deletes its upload
\* file: clear session and the expiry sweep remove files only of jobs that
\* are no longer waiting for or undergoing the transform.
UploadKeptWhileWaiting ==
    [][\A j \in Ids :
          (/\ jobs[j] # NoJob
           /\ jobs[j].status \in {"pending", "processing"}
           /\ files[jobs[j].upload_path] # NullInt)
              => files'[jobs[j].upload_path] # NullInt]_vars

\* C40: the result process_pdf returns agrees with the stored job: success
\* only with the job completed and processed_size and processed_path set,
\* failure only with the job failed and an error_message set.
ResultAgreesWithJob ==
    [][\A j \in Ids :
          (task[j].pc \in {"started", "ran"} /\ task'[j].pc = "returned")
              => LET result == task'[j].result
                 IN  /\ result.success
                           => /\ jobs'[j].status = "completed"
                              /\ jobs'[j].processed_size # NullInt
                              /\ jobs'[j].processed_path # NullPath
                     /\ ~ result.success
                           => /\ jobs'[j].status = "failed"
                              /\ jobs'[j].error_message # NullStr]_vars

====
